---- MODULE Spec2Model ----
(***************************************************************************)
(* Model of scripts/add-metadata.py: a script that tags audio files by     *)
(* running one ffmpeg process per file and, optionally, replacing each     *)
(* original by its tagged copy (rm, then mv).                              *)
(*                                                                         *)
(* A Python str is a sequence of atoms.  An atom is one character, or a    *)
(* fixed piece of text that no operation of the script looks inside        *)
(* ("copy_", ".mp3", "ffmpeg", "-metadata", ...).  The two characters the  *)
(* script rewrites, " " and "'", and the two it searches for, "/" and "*", *)
(* are always atoms of their own.  A command is a sequence of such strs.   *)
(***************************************************************************)
EXTENDS Integers, Sequences, FiniteSets, TLC

VARIABLES
    pc,             \* position of the script
    config,         \* the MediaConfig record
    fs,             \* the disk: path -> content (0: as found, i: written by the i-th file's ffmpeg)
    fs0,            \* the disk when the script started
    files,          \* getFilePaths' first result
    imageFile,      \* getFilePaths' second result (None when img is empty)
    filesStr,       \* whether the Path objects in files carry an initialised _str slot
    imageStr,       \* the same for imageFile
    idx,            \* 1-based position of the for loop of addMetadata in files
    outputFilename, \* addMetadata's outputFilename of the current file
    outputFiles,    \* addMetadata's outputFiles
    calls,          \* every subprocess.run so far: [cmd |-> argv, ok |-> exit status was 0]
    fnIn,           \* input of the pure function under test
    fnOut           \* its result

vars == <<pc, config, fs, fs0, files, imageFile, filesStr, imageStr, idx,
          outputFilename, outputFiles, calls, fnIn, fnOut>>

----------------------------------------------------------------------------
(* Bounds *)

\* number of audio file names of NamePool that may be on the disk
MaxFiles == 2
\* longest bare file name drawn for the pure functions
MaxNameLen == 2

----------------------------------------------------------------------------
(* Strings *)

None == <<"None">>
Empty == <<>>

RECURSIVE Replace(_, _, _)
\* str.replace(old, new) for a one-character old
Replace(s, old, new) ==
    IF s = <<>> THEN <<>>
    ELSE (IF Head(s) = old THEN new ELSE <<Head(s)>>) \o Replace(Tail(s), old, new)

\* "*" in filename
Contains(s, c) == \E k \in 1..Len(s) : s[k] = c

\* str.rindex("/"), 1-based; 0 stands for the ValueError
RIndex(s, c) ==
    IF Contains(s, c) THEN CHOOSE k \in 1..Len(s) : s[k] = c /\ \A j \in (k+1)..Len(s) : s[j] # c
    ELSE 0

\* Path.name: the text after the last "/"
PathName(p) == SubSeq(p, RIndex(p, "/") + 1, Len(p))

\* the directory a path lies in
PathParent(p) == IF RIndex(p, "/") = 0 THEN <<".">> ELSE SubSeq(p, 1, RIndex(p, "/") - 1)

\* Path(dir) / filename, for a relative filename: pathlib drops a leading "."
PathJoin(dir, filename) == IF dir = <<".">> THEN filename ELSE dir \o <<"/">> \o filename

RECURSIVE GlobMatch(_, _)
\* fnmatch of one path component against a pattern whose only wildcard is "*"
GlobMatch(pat, name) ==
    IF pat = <<>> THEN name = <<>>
    ELSE IF Head(pat) = "*"
         THEN GlobMatch(Tail(pat), name) \/ (name # <<>> /\ GlobMatch(pat, Tail(name)))
         ELSE name # <<>> /\ Head(name) = Head(pat) /\ GlobMatch(Tail(pat), Tail(name))

----------------------------------------------------------------------------
(* The pure functions of the script *)

\* faulty variant of trimStr: the second replace is missing
trimStr_KeepsApostrophe(filename) == Replace(filename, " ", <<"_">>)

trimStr(filename) == Replace(Replace(filename, " ", <<"_">>), "'", <<>>)

\* faulty variant of getOutputFilename: normalize mode forgets the copy_ marker
getOutputFilename_NoPrefix(cfg, file) ==
    IF cfg.replaceWhitespace
    THEN IF RIndex(file, "/") = 0 THEN <<"ValueError">>
         ELSE trimStr(SubSeq(file, 1, RIndex(file, "/") - 1) \o <<"/">> \o PathName(file))
    ELSE <<"copy_">> \o PathName(file)

\* <<"ValueError">> stands for the exception of path.rindex('/')
getOutputFilename(cfg, file) ==
    IF cfg.replaceWhitespace
    THEN IF RIndex(file, "/") = 0 THEN <<"ValueError">>
         ELSE trimStr(SubSeq(file, 1, RIndex(file, "/") - 1) \o <<"/", "copy_">> \o PathName(file))
    ELSE <<"copy_">> \o PathName(file)

\* the keys of metadataMap, in insertion order
MetadataKeys == <<"title", "artist", "genre", "track", "album">>

metadataMap(cfg, title) ==
    [k \in 1..5 |-> <<MetadataKeys[k], <<title, cfg.artist, cfg.genre, cfg.track, cfg.album>>[k]>>]

RECURSIVE MetadataArgs_KeepsEmpty(_)
\* faulty variant of MetadataArgs: the test "if value" is missing
MetadataArgs_KeepsEmpty(items) ==
    IF items = <<>> THEN <<>>
    ELSE << <<"-metadata">>, <<Head(items)[1], "=">> \o Head(items)[2] >>
         \o MetadataArgs_KeepsEmpty(Tail(items))

RECURSIVE MetadataArgs(_)
\* the for loop over metadataMap.items()
MetadataArgs(items) ==
    IF items = <<>> THEN <<>>
    ELSE (IF Head(items)[2] # Empty
          THEN << <<"-metadata">>, <<Head(items)[1], "=">> \o Head(items)[2] >>
          ELSE <<>>) \o MetadataArgs(Tail(items))

\* faulty variant of getFfmpegCommand: the image input is added after the tags
getFfmpegCommand_MapAfterMetadata(file, cfg, image, outName, prompted) ==
    LET title == IF cfg.askTitle THEN prompted ELSE cfg.title
    IN  << <<"ffmpeg">>, <<"-i">>, file >>
        \o MetadataArgs(metadataMap(cfg, title))
        \o (IF image # None
            THEN << <<"-i">>, image, <<"-map">>, <<"0:0">>, <<"-map">>, <<"1:0">> >>
            ELSE <<>>)
        \o << <<"-id3v2_version">>, <<"3">> >>
        \o << <<"-c">>, <<"copy">>, outName >>

\* title is config.title, or what input() returned when askTitle is set
getFfmpegCommand(file, cfg, image, outName, prompted) ==
    LET title == IF cfg.askTitle THEN prompted ELSE cfg.title
    IN  << <<"ffmpeg">>, <<"-i">>, file >>
        \o (IF image # None
            THEN << <<"-i">>, image, <<"-map">>, <<"0:0">>, <<"-map">>, <<"1:0">> >>
            ELSE <<>>)
        \o MetadataArgs(metadataMap(cfg, title))
        \o << <<"-id3v2_version">>, <<"3">> >>
        \o << <<"-c">>, <<"copy">>, outName >>

getRmCommand(file) == << <<"rm">>, file >>

getMvCommand(originalFilename, newFilename) == << <<"mv">>, originalFilename, newFilename >>

----------------------------------------------------------------------------
(* The command line and the disk the script may be started with *)

Str(a) == <<a>>

\* MediaConfig.filename's default value
DefaultFilename == <<"*", ".mp3">>

\* audio file names that may lie in the directory
NamePool ==
    << <<"a", ".mp3">>, <<"b", " ", "'", ".mp3">>, <<"copy_", "a", ".mp3">>, <<"'", "a", ".mp3">> >>

AudioNames == {NamePool[k] : k \in 1..MaxFiles}

CoverName == <<"c", ".jpg">>

Dirs == {Empty, Str("."), Str("d"), <<"e", " ", "'">>}

\* the tag options given: none, each one alone, or all five
TagChoices ==
    {[k \in 1..5 |-> IF k \in on THEN Str(MetadataKeys[k]) \o Str("!") ELSE Empty] :
        on \in {{}, {1}, {2}, {3}, {4}, {5}, 1..5}}

MediaConfig(dir, img, tags, filename, askTitle, replaceWhitespace, cleanup) ==
    [dir |-> dir, img |-> img, title |-> tags[1], artist |-> tags[2], genre |-> tags[3],
     track |-> tags[4], album |-> tags[5], filename |-> filename, askTitle |-> askTitle,
     replaceWhitespace |-> replaceWhitespace, cleanupFiles |-> cleanup]

Configs ==
    {MediaConfig(d, i, t, f, a, r, c) :
        d \in Dirs, i \in {Empty, <<"*", ".jpg">>}, t \in TagChoices,
        f \in {DefaultFilename, NamePool[1]}, a \in BOOLEAN, r \in BOOLEAN, c \in BOOLEAN}

\* what input() may return
PromptInputs == {Empty, Str("typed")}

\* Path(dir): Path("") is the current directory
PathOf(dir) == IF dir = Empty THEN Str(".") ELSE dir

Disk(dir, names) == [p \in {PathJoin(PathOf(dir), n) : n \in names} |-> 0]

Init ==
    /\ pc = "start"
    /\ config \in Configs
    /\ \E names \in SUBSET AudioNames, cover \in SUBSET {CoverName} :
           fs = Disk(config.dir, names \cup cover)
    /\ fs0 = fs
    /\ files = <<>>
    /\ imageFile = None
    /\ filesStr = FALSE
    /\ imageStr = FALSE
    /\ idx = 0
    /\ outputFilename = Empty
    /\ outputFiles = <<>>
    /\ calls = <<>>
    /\ fnIn = <<>>
    /\ fnOut = <<>>

----------------------------------------------------------------------------
(* The script *)

\* faulty variant of ValidConfig: the third assertion is missing
ValidConfig_TitleOptional(cfg) ==
    /\ cfg.dir # Empty
    /\ (cfg.img # Empty \/ cfg.artist # Empty \/ cfg.genre # Empty
        \/ cfg.track # Empty \/ cfg.album # Empty \/ cfg.title # Empty)

\* the three assertions of __main__
ValidConfig(cfg) ==
    /\ cfg.dir # Empty
    /\ (cfg.img # Empty \/ cfg.artist # Empty \/ cfg.genre # Empty
        \/ cfg.track # Empty \/ cfg.album # Empty \/ cfg.title # Empty)
    /\ (cfg.title # Empty \/ cfg.askTitle)

\* __main__ up to the call of main
Validate ==
    /\ pc = "start"
    /\ pc' = IF ValidConfig(config) THEN "discover" ELSE "aborted"
    /\ UNCHANGED <<config, fs, fs0, files, imageFile, filesStr, imageStr, idx,
                   outputFilename, outputFiles, calls, fnIn, fnOut>>

\* Path.glob(pattern) for a pattern of one component: the matches, in no order
Glob(disk, dir, pattern) ==
    {p \in DOMAIN disk : PathParent(p) = PathOf(dir) /\ GlobMatch(pattern, PathName(p))}

Orders(S) == {s \in [1..Cardinality(S) -> S] : \A j, k \in 1..Cardinality(S) : s[j] = s[k] => j = k}

\* faulty variant of FilePaths: a literal name is globbed too
FilePaths_AlwaysGlob(disk, dir, filename) == Orders(Glob(disk, dir, filename))

\* the values getFilePaths' files may take
FilePaths(disk, dir, filename) ==
    IF Contains(filename, "*") THEN Orders(Glob(disk, dir, filename))
    ELSE {<<PathJoin(PathOf(dir), filename)>>}

\* getFilePaths, called by main.  The script later reads file._str and
\* imageFile._str, a private slot of pathlib's Path that str() fills on first
\* use.  Whether a Path that glob or "/" has just built already has it filled
\* depends on the pathlib in use (CPython 3.11 leaves it unset), so both
\* outcomes are possible: filesStr and imageStr.
GetFilePaths ==
    /\ pc = "discover"
    /\ \E fl \in FilePaths(fs, config.dir, config.filename) :
         IF fl = <<>> \/ (config.img # Empty /\ Glob(fs, config.dir, config.img) = {})
         THEN /\ pc' = "aborted"
              /\ UNCHANGED <<files, imageFile, filesStr, imageStr, idx>>
         ELSE /\ files' = fl
              /\ filesStr' \in BOOLEAN
              /\ IF config.img # Empty
                 THEN /\ imageFile' \in Glob(fs, config.dir, config.img)
                      /\ imageStr' \in BOOLEAN
                 ELSE /\ imageFile' = None
                      /\ imageStr' = FALSE
              /\ idx' = 1
              /\ pc' = "loop"
    /\ UNCHANGED <<config, fs, fs0, outputFilename, outputFiles, calls, fnIn, fnOut>>

\* the loop of addMetadata moves to the next file, or ends
Advance == IF idx = Len(files) THEN "done" ELSE "loop"

\* whether subprocess.run of ffmpeg can exit with 0
CanTranscode(disk, file, image) ==
    file \in DOMAIN disk /\ (image = None \/ image \in DOMAIN disk)

\* disk with content c at path p
WriteFile(disk, p, c) == [q \in DOMAIN disk \cup {p} |-> IF q = p THEN c ELSE disk[q]]

RemoveFile(disk, p) == [q \in DOMAIN disk \ {p} |-> disk[q]]

\* faulty variant of AfterFfmpeg: a non-zero exit status ends the run
AfterFfmpeg_Abort(ok) ==
    IF ~ok THEN "aborted" ELSE IF config.cleanupFiles THEN "rm" ELSE Advance

\* faulty variant of AfterFfmpeg: the cleanup is never called
AfterFfmpeg_NoCleanup(ok) == Advance

\* addMetadata after subprocess.run(command): the exit status is not looked at
AfterFfmpeg(ok) == IF config.cleanupFiles THEN "rm" ELSE Advance

\* one iteration of the loop of addMetadata up to the cleanup.  In normalize
\* mode file.as_posix() (getOutputFilename) has filled file._str before
\* getFfmpegCommand reads it.  ffmpeg exits non-zero when an input is missing,
\* and may do so for reasons of its own.
Transcode ==
    /\ pc = "loop"
    /\ LET file == files[idx]
           out == getOutputFilename(config, file)
       IN  IF out = <<"ValueError">>
           THEN /\ pc' = "aborted"
                /\ UNCHANGED <<fs, outputFilename, outputFiles, calls, idx>>
           ELSE /\ outputFilename' = out
                /\ outputFiles' = Append(outputFiles, out)
                /\ \E prompted \in IF config.askTitle THEN PromptInputs ELSE {Empty} :
                     IF \/ ~(filesStr \/ config.replaceWhitespace)
                        \/ (imageFile # None /\ ~imageStr)
                     THEN \* AttributeError: file._str or imageFile._str was never set
                          /\ pc' = "aborted"
                          /\ UNCHANGED <<fs, calls, idx>>
                     ELSE \E ok \in {FALSE} \cup {CanTranscode(fs, file, imageFile)} :
                          /\ calls' = Append(calls,
                                [cmd |-> getFfmpegCommand(file, config, imageFile, out, prompted),
                                 ok |-> ok])
                          /\ fs' = IF ok THEN WriteFile(fs, out, idx) ELSE fs
                          /\ pc' = AfterFfmpeg(ok)
                          /\ idx' = IF pc' = "rm" THEN idx ELSE idx + 1
    /\ UNCHANGED <<config, fs0, files, imageFile, filesStr, imageStr, fnIn, fnOut>>

\* cleanupFiles after the first subprocess.run
AfterRm(ok) == "mv"

\* cleanupFiles: rm of the original
CleanupRm ==
    /\ pc = "rm"
    /\ LET file == files[idx]
           ok == file \in DOMAIN fs
       IN  /\ calls' = Append(calls, [cmd |-> getRmCommand(file), ok |-> ok])
           /\ fs' = IF ok THEN RemoveFile(fs, file) ELSE fs
           /\ pc' = AfterRm(ok)
    /\ UNCHANGED <<config, fs0, files, imageFile, filesStr, imageStr, idx,
                   outputFilename, outputFiles, fnIn, fnOut>>

\* faulty variant of MvTarget: trimFilename is ignored
MvTarget_Untrimmed(file, trimFilename) == file

\* the second argument cleanupFiles gives to getMvCommand
MvTarget(file, trimFilename) == IF ~trimFilename THEN file ELSE trimStr(file)

\* cleanupFiles: mv of the copy, and the end of the iteration
CleanupMv ==
    /\ pc = "mv"
    /\ LET file == files[idx]
           target == MvTarget(file, config.replaceWhitespace)
           ok == outputFilename \in DOMAIN fs
       IN  /\ calls' = Append(calls, [cmd |-> getMvCommand(outputFilename, target), ok |-> ok])
           /\ fs' = IF ok THEN WriteFile(RemoveFile(fs, outputFilename), target, fs[outputFilename])
                    ELSE fs
           /\ pc' = Advance
           /\ idx' = idx + 1
    /\ UNCHANGED <<config, fs0, files, imageFile, filesStr, imageStr,
                   outputFilename, outputFiles, fnIn, fnOut>>

Next == Validate \/ GetFilePaths \/ Transcode \/ CleanupRm \/ CleanupMv

Spec == Init /\ [][Next]_vars

----------------------------------------------------------------------------
(* The pure functions on their own: getOutputFilename and getFfmpegCommand *)
(* applied to one path drawn from a bounded set                            *)

NameAlphabet == {"a", " ", "'", "TAB"}

\* every bare file name of 1..MaxNameLen characters
FnNames == UNION {[1..n -> NameAlphabet] : n \in 1..MaxNameLen}

FnDirs == {Str("."), Str("d"), <<"e", " ", "'">>, <<"d", "/", "f", "'">>}

\* all 32 choices of which tag options are given
AllTagChoices ==
    {[k \in 1..5 |-> IF k \in on THEN Str(MetadataKeys[k]) \o Str("!") ELSE Empty] :
        on \in SUBSET (1..5)}

InitFn ==
    /\ pc = "fn"
    /\ \E d \in FnDirs, n \in FnNames, t \in AllTagChoices, a \in BOOLEAN, r \in BOOLEAN :
         /\ config = MediaConfig(d, Empty, t, DefaultFilename, a, r, FALSE)
         /\ files = <<PathJoin(d, n)>>
    /\ imageFile \in {None, <<"d", "/">> \o CoverName}
    /\ fs = <<>>
    /\ fs0 = <<>>
    /\ filesStr = TRUE
    /\ imageStr = TRUE
    /\ idx = 1
    /\ outputFilename = Empty
    /\ outputFiles = <<>>
    /\ calls = <<>>
    /\ fnIn = <<>>
    /\ fnOut = <<>>

\* derive(name), and derive applied to its own result
ApplyOutputFilename ==
    /\ pc = "fn"
    /\ pc' = "derived"
    /\ LET first == getOutputFilename(config, files[1])
       IN  fnOut' = <<first, IF first = <<"ValueError">> THEN first
                             ELSE getOutputFilename(config, first)>>
    /\ UNCHANGED <<config, fs, fs0, files, imageFile, filesStr, imageStr, idx,
                   outputFilename, outputFiles, calls, fnIn>>

\* getFfmpegCommand as addMetadata calls it, where a name was derived
ApplyFfmpegCommand ==
    /\ pc = "fn"
    /\ getOutputFilename(config, files[1]) # <<"ValueError">>
    /\ pc' = "built"
    /\ \E prompted \in IF config.askTitle THEN PromptInputs ELSE {Empty} :
         /\ fnIn' = prompted
         /\ fnOut' = getFfmpegCommand(files[1], config, imageFile,
                                      getOutputFilename(config, files[1]), prompted)
    /\ UNCHANGED <<config, fs, fs0, files, imageFile, filesStr, imageStr, idx,
                   outputFilename, outputFiles, calls>>

NextFn == ApplyOutputFilename \/ ApplyFfmpegCommand

SpecFn == InitFn /\ [][NextFn]_vars

----------------------------------------------------------------------------
(* Properties of the run (specification Spec) *)

LastArg(cmd) == cmd[Len(cmd)]

\* subprocess.run calls per file
Per == IF config.cleanupFiles THEN 3 ELSE 1

\* C1: a configuration with an empty directory, or with none of img, artist,
\* genre, track, album, title set, or with an empty title and askTitle unset,
\* never gets past the start-up validation: no process is run, no file is
\* discovered and the disk stays as it was found.
C1_AbortsAtValidation ==
    (\/ config.dir = Empty
     \/ (config.img = Empty /\ config.artist = Empty /\ config.genre = Empty
         /\ config.track = Empty /\ config.album = Empty /\ config.title = Empty)
     \/ (config.title = Empty /\ ~config.askTitle))
    => (pc \in {"start", "aborted"} /\ calls = <<>> /\ files = <<>> /\ fs = fs0)

\* aborted although a directory and an artist were given: the title is missing
C1_Witness ==
    /\ pc = "aborted"
    /\ config.dir # Empty
    /\ config.artist # Empty
    /\ config.title = Empty
    /\ ~config.askTitle

\* C4: without "*" in the specifier getFilePaths returns the one path
\* directory/filename, on the disk or not; with "*" it returns the glob
\* expansion, each match once, and the run aborts with no process run when the
\* expansion is empty.
C4_Discovery ==
    /\ pc \in {"loop", "rm", "mv", "done"} => files # <<>>
    /\ files # <<>> =>
         IF Contains(config.filename, "*")
         THEN /\ {files[k] : k \in 1..Len(files)} = Glob(fs0, config.dir, config.filename)
              /\ Len(files) = Cardinality(Glob(fs0, config.dir, config.filename))
         ELSE files = <<PathJoin(config.dir, config.filename)>>
    /\ (/\ pc = "aborted"
        /\ ValidConfig(config)
        /\ ~Contains(config.filename, "*")
        /\ (config.img = Empty \/ Glob(fs0, config.dir, config.img) # {}))
       => files # <<>>
    /\ (/\ ValidConfig(config)
        /\ Contains(config.filename, "*")
        /\ Glob(fs0, config.dir, config.filename) = {})
       => (pc \in {"start", "discover", "aborted"} /\ files = <<>> /\ calls = <<>> /\ fs = fs0)

\* a literal file name that is not on the disk was returned all the same
C4_Witness ==
    /\ pc = "loop"
    /\ ~Contains(config.filename, "*")
    /\ Len(files) = 1
    /\ files[1] \notin DOMAIN fs0

\* C7: with cleanup and normalize unset and no image, a run over N discovered
\* files ends after exactly N ffmpeg calls, the i-th on the i-th file and ending
\* with -id3v2_version 3 -c copy copy_<name of file i>; the files found at the
\* start and the copies written are all on the disk.
C7_OneTranscodePerFile ==
    (/\ pc \in {"done", "aborted"}
     /\ files # <<>>
     /\ ~config.cleanupFiles
     /\ ~config.replaceWhitespace
     /\ config.img = Empty)
    => /\ Len(calls) = Len(files)
       /\ \A i \in 1..Len(calls) :
            LET cmd == calls[i].cmd
            IN  /\ SubSeq(cmd, 1, 3) = << <<"ffmpeg">>, <<"-i">>, files[i] >>
                /\ SubSeq(cmd, Len(cmd) - 4, Len(cmd)) =
                     << <<"-id3v2_version">>, <<"3">>, <<"-c">>, <<"copy">>,
                        <<"copy_">> \o PathName(files[i]) >>
                /\ calls[i].ok => LastArg(cmd) \in DOMAIN fs
       /\ \A p \in DOMAIN fs0 : p \in DOMAIN fs

\* C8: the calls come file after file, and for each file in the order ffmpeg,
\* then (cleanup set) rm of that file, then mv of the name ffmpeg wrote to; a
\* run that made a call is not cut short, a finished run made exactly one such
\* group per file, and with cleanup unset no rm and no mv at all.
C8_Sequential ==
    /\ Len(calls) <= Per * Len(files)
    /\ calls # <<>> => pc # "aborted"
    /\ pc = "done" => Len(calls) = Per * Len(files)
    /\ \A k \in 1..Len(calls) :
         LET cmd == calls[k].cmd
             file == files[((k - 1) \div Per) + 1]
         IN  CASE (k - 1) % Per = 0 -> SubSeq(cmd, 1, 3) = << <<"ffmpeg">>, <<"-i">>, file >>
               [] (k - 1) % Per = 1 -> cmd = << <<"rm">>, file >>
               [] (k - 1) % Per = 2 ->
                    /\ Len(cmd) = 3
                    /\ cmd[1] = <<"mv">>
                    /\ cmd[2] = LastArg(calls[k - 2].cmd)

\* two files, each transcoded, removed and renamed
C8_Witness ==
    /\ pc = "done"
    /\ config.cleanupFiles
    /\ Len(files) = 2
    /\ Len(calls) = 6

\* C9: when ffmpeg, rm and mv of a file all succeeded, then right after its
\* cleanup the content ffmpeg wrote for it lies at the original path (in
\* normalize mode at trimStr of that path), mv was given the name ffmpeg wrote
\* to, and neither that name nor a renamed original is left on the disk.
C9_CopyTakesOriginalsPlace ==
    (/\ config.cleanupFiles
     /\ pc \in {"loop", "done"}
     /\ idx > 1
     /\ Len(calls) = 3 * (idx - 1)
     /\ \A k \in (Len(calls) - 2)..Len(calls) : calls[k].ok)
    => LET file == files[idx - 1]
           ffmpeg == calls[Len(calls) - 2].cmd
           mv == calls[Len(calls)].cmd
           place == IF config.replaceWhitespace
                    THEN Replace(Replace(file, " ", <<"_">>), "'", <<>>)
                    ELSE file
       IN  /\ mv = << <<"mv">>, LastArg(ffmpeg), place >>
           /\ place \in DOMAIN fs
           /\ fs[place] = idx - 1
           /\ LastArg(ffmpeg) \notin DOMAIN fs
           /\ (config.replaceWhitespace /\ place # file) => file \notin DOMAIN fs

\* a file whose name normalize mode changes has been replaced by its copy
C9_Witness ==
    /\ config.cleanupFiles
    /\ config.replaceWhitespace
    /\ pc \in {"loop", "done"}
    /\ idx > 1
    /\ Len(calls) = 3 * (idx - 1)
    /\ \A k \in (Len(calls) - 2)..Len(calls) : calls[k].ok
    /\ trimStr(files[idx - 1]) # files[idx - 1]

\* where the script stands after n iterations and the calls of this one
Position == Per * (idx - 1) + (CASE pc = "rm" -> 1 [] pc = "mv" -> 2 [] OTHER -> 0)

\* C10: a call that exited non-zero changes nothing in what follows: the run
\* is not aborted, the next call is the one that follows a success (rm after
\* ffmpeg and mv after rm when cleanup is set, the next file's ffmpeg
\* otherwise), and the run ends after the full number of calls.
C10_FailuresIgnored ==
    (\E k \in 1..Len(calls) : ~calls[k].ok)
    => /\ pc \in {"loop", "rm", "mv", "done"}
       /\ Len(calls) = Position
       /\ pc = "done" => idx = Len(files) + 1
       /\ \A k \in 1..(Len(calls) - 1) :
            ~calls[k].ok =>
              calls[k + 1].cmd[1] =
                 IF ~config.cleanupFiles THEN <<"ffmpeg">>
                 ELSE << <<"ffmpeg">>, <<"rm">>, <<"mv">> >>[(k % 3) + 1]

\* ffmpeg failed on the first file; its original was removed all the same,
\* the mv of the missing copy failed, and the second file was processed
C10_Witness ==
    /\ pc = "done"
    /\ config.cleanupFiles
    /\ Len(files) = 2
    /\ Len(calls) = 6
    /\ ~calls[1].ok
    /\ calls[2].ok
    /\ ~calls[3].ok

----------------------------------------------------------------------------
(* Properties of the pure functions (specification SpecFn) *)

\* the title getFfmpegCommand uses, and the four other tag values
FieldValues ==
    <<IF config.askTitle THEN fnIn ELSE config.title,
      config.artist, config.genre, config.track, config.album>>

\* positions of the -metadata arguments of a command
MetaPos(cmd) == {k \in 1..(Len(cmd) - 1) : cmd[k] = <<"-metadata">>}

\* those that assign to the j-th key
KeyPos(cmd, j) ==
    {k \in MetaPos(cmd) :
        /\ Len(cmd[k + 1]) >= 2
        /\ cmd[k + 1][1] = MetadataKeys[j]
        /\ cmd[k + 1][2] = "="}

Count(cmd, arg) == Cardinality({k \in 1..Len(cmd) : cmd[k] = arg})

\* C2: the command has exactly one -metadata key=value for each of title,
\* artist, genre, track, album whose value is not empty (title's value being
\* the typed one when askTitle is set), none for a field whose value is empty,
\* no other -metadata, and the pairs stand in that order.
C2_MetadataArguments ==
    pc = "built" =>
      /\ \A j \in 1..5 :
           IF FieldValues[j] # Empty
           THEN /\ Cardinality(KeyPos(fnOut, j)) = 1
                /\ \A k \in KeyPos(fnOut, j) :
                     fnOut[k + 1] = <<MetadataKeys[j], "=">> \o FieldValues[j]
           ELSE KeyPos(fnOut, j) = {}
      /\ MetaPos(fnOut) = UNION {KeyPos(fnOut, j) : j \in 1..5}
      /\ \A k \in MetaPos(fnOut) : Len(fnOut[k + 1]) > 2
      /\ \A i, j \in 1..5 :
           i < j => \A k \in KeyPos(fnOut, i), m \in KeyPos(fnOut, j) : k < m

\* a typed title, an empty genre between non-empty artist and track
C2_Witness ==
    /\ pc = "built"
    /\ config.askTitle
    /\ fnIn # Empty
    /\ config.title = Empty
    /\ config.artist # Empty
    /\ config.genre = Empty
    /\ config.track # Empty

\* C3: with a cover image the command continues, right after the first input,
\* with -i <image> -map 0:0 -map 1:0, before every -metadata; without one it
\* has a single -i and no -map.
C3_ImageArguments ==
    pc = "built" =>
      /\ SubSeq(fnOut, 1, 3) = << <<"ffmpeg">>, <<"-i">>, files[1] >>
      /\ IF imageFile # None
         THEN /\ SubSeq(fnOut, 4, 9) =
                   << <<"-i">>, imageFile, <<"-map">>, <<"0:0">>, <<"-map">>, <<"1:0">> >>
              /\ \A k \in MetaPos(fnOut) : k > 9
              /\ Count(fnOut, <<"-i">>) = 2
              /\ Count(fnOut, <<"-map">>) = 2
         ELSE /\ Count(fnOut, <<"-i">>) = 1
              /\ Count(fnOut, <<"-map">>) = 0

\* a command with an image and tags
C3_Witness ==
    /\ pc = "built"
    /\ imageFile # None
    /\ MetaPos(fnOut) # {}

\* no space and no apostrophe in s
Clean(s) == \A k \in 1..Len(s) : s[k] \notin {" ", "'"}

\* <source directory>/copy_<bare filename> of a path with a directory part
CopyBeside(file) == PathParent(file) \o <<"/", "copy_">> \o PathName(file)

\* C5 as stated: in normalize mode, deriving the output name of an already
\* derived name of a path free of spaces and apostrophes changes nothing.
C5_Idempotent ==
    (/\ pc = "derived"
     /\ config.replaceWhitespace
     /\ Clean(files[1])
     /\ fnOut[1] # <<"ValueError">>)
    => fnOut[2] = fnOut[1]

\* C5 as amended: in normalize mode, for a path free of spaces and
\* apostrophes, derivation raises when the path has no directory part;
\* otherwise it yields <directory>/copy_<name> unchanged by the normalisation,
\* and deriving again puts one more copy_ before the name, so the two differ.
C5_EachDerivationPrefixes ==
    (/\ pc = "derived"
     /\ config.replaceWhitespace
     /\ Clean(files[1]))
    => IF ~Contains(files[1], "/")
       THEN fnOut[1] = <<"ValueError">>
       ELSE /\ fnOut[1] = CopyBeside(files[1])
            /\ fnOut[2] = CopyBeside(fnOut[1])
            /\ fnOut[2] # fnOut[1]
            /\ Clean(fnOut[2])

\* a clean path with a directory part was derived twice
C5_Witness ==
    /\ pc = "derived"
    /\ config.replaceWhitespace
    /\ Clean(files[1])
    /\ Contains(files[1], "/")
    /\ Len(fnOut[2]) = Len(files[1]) + 2

Stripped(c) == c \notin {" ", "TAB", "'"}

NoApostrophe(c) == c # "'"

Underscored(s) == [k \in 1..Len(s) |-> IF s[k] = " " THEN "_" ELSE s[k]]

====
